---- MODULE Spec2Model ----
(***************************************************************************)
(* Device-bound sessions, refresh tokens, access-token revocation and      *)
(* presence of the Intralink backend (backend/models/session.py,          *)
(* backend/routes/auth.py, backend/app.py, backend/socketio_events.py).    *)
(*                                                                         *)
(* Every request handler is one atomic action.  Time is a clock `now`      *)
(* read by datetime.utcnow(); it advances only in Tick.  What a handler    *)
(* answers is an operator (login_response, refresh_response, ...) of the   *)
(* state it runs in; a request that is rejected without a write leaves     *)
(* every variable as it is.                                                *)
(***************************************************************************)
EXTENDS Integers, Sequences, FiniteSets, TLC

(* ------------------------------ bounds -------------------------------- *)
\* clock units per hour (granularity of the modelled clock)
TicksPerHour == 2
\* rows of user_sessions a behaviour creates
MaxSessions == 2
\* access tokens a behaviour issues
MaxTokens == 2
\* calls of generate_device_fingerprint that are recorded
MaxCalls == 2

(* ------------------------- program constants -------------------------- *)
\* expires_days=30 passed by login to create_session / extend_expiration
expires_days == 30
\* expires_delta=timedelta(hours=1) of create_access_token
access_token_hours == 1

Hours(n) == n * TicksPerHour
Days(n) == Hours(24 * n)

Users == {"alice", "bob"}
Usernames == Users \cup {"nobody"}
Passwords == {"right", "wrong"}
Devices == {"D1", "D2"}
\* a cookie that is absent reads as the empty string / None
NoDevice == ""
DeviceCookies == Devices \cup {NoDevice}
IPs == {"10.0.0.1"}
\* None of Python, for ids and timestamps
None == 0
\* Socket.IO clients (browser tabs)
Handles == {"c1", "c2", "c3"}
\* a client that is not connected
NoUser == ""
\* users.department_id of the seeded users (None: no department)
department_id == [u \in Users |-> IF u = "alice" THEN "eng" ELSE ""]
\* raw refresh tokens a client can present: 0 is the missing cookie, the
\* others are the values secrets.token_urlsafe hands out (issued or not)
RefreshCookies == 0..MaxSessions
\* access tokens a client can present: 0 is one no key ever signed
Bearers == 0..MaxTokens

VARIABLES
    now,                \* datetime.utcnow()
    users,              \* table users: status, last_seen, is_online
    sessions,           \* table user_sessions, row id = index
    tokens,             \* access tokens issued so far, jti = index
    blacklisted_tokens, \* routes/auth.py: blacklisted_tokens
    connected_users,    \* socketio_events.py: connected_users
    conns,              \* Socket.IO clients: the user each is connected as
    rooms,              \* Socket.IO rooms each client has joined
    emitted,            \* events the most recent socket handler emitted
    request,            \* flask.request: the headers of the current request
    calls,              \* generate_device_fingerprint: calls made, with
                        \* the device id each returned
    inflight            \* per worker: the handler it is in the middle of,
                        \* with the handler's local variables

vars == <<now, users, sessions, tokens, blacklisted_tokens,
          connected_users, conns, rooms, emitted, request, calls, inflight>>

authVars == <<users, sessions, tokens, blacklisted_tokens>>
presenceVars == <<connected_users, conns, rooms, emitted>>
\* what belongs to single requests in flight
flightVars == <<request, calls, inflight>>

(* ----------------------------- responses ------------------------------ *)
\* the fields of a handler's answer: HTTP status, error text, whether the
\* refresh_token and device_id cookies are cleared, the artifacts returned
NoResponse ==
    [op |-> "none", code |-> 0, error |-> "", cleared |-> FALSE,
     user |-> "", device |-> NoDevice, remember |-> FALSE,
     sid |-> None, refresh_token |-> 0, access_token |-> 0,
     ret |-> FALSE, count |-> 0, prior |-> ""]

Response(op, code, error) ==
    [NoResponse EXCEPT !.op = op, !.code = code, !.error = error]

Min(S) == CHOOSE x \in S : \A y \in S : x <= y

(* --------------------------- session model ---------------------------- *)
SessionIds == DOMAIN sessions

\* UserSession._hash_refresh_token: sha256 of "token:secret"; the digest is
\* taken as collision free, so it is the pair it was computed from
hash_refresh_token(refresh_token, session_secret) ==
    <<refresh_token, session_secret>>

\* UserSession._verify_refresh_token
check_refresh_token(refresh_token, stored_hash, session_secret) ==
    hash_refresh_token(refresh_token, session_secret) = stored_hash

\* UserSession.is_valid
is_valid(s) == s.status = "active" /\ s.expires_at > now

\* the query without its status filter
VerifyCandidates_AnyStatus(device_id) ==
    {i \in SessionIds : /\ sessions[i].device_id = device_id
                        /\ sessions[i].expires_at > now}

\* the query without its device filter
VerifyCandidates_AnyDevice(device_id) ==
    {i \in SessionIds : /\ sessions[i].status = "active"
                        /\ sessions[i].expires_at > now}

\* the rows verify_refresh_token's query selects
VerifyCandidates(device_id) ==
    {i \in SessionIds : /\ sessions[i].device_id = device_id
                        /\ sessions[i].status = "active"
                        /\ sessions[i].expires_at > now}

\* the rows among them whose hash matches
VerifyMatches(refresh_token, device_id) ==
    {i \in VerifyCandidates(device_id) :
        check_refresh_token(refresh_token, sessions[i].refresh_token_hash,
                            sessions[i].session_secret)}

\* UserSession.verify_refresh_token: the row it returns (the first match),
\* None when it returns None
verify_refresh_token(refresh_token, device_id) ==
    IF refresh_token = 0 \/ device_id = NoDevice
    THEN None
    ELSE IF VerifyMatches(refresh_token, device_id) = {}
         THEN None
         ELSE Min(VerifyMatches(refresh_token, device_id))

\* the raw token create_session returned for row i (kept by the client only)
RawToken(i) == sessions[i].refresh_token_hash[1]

\* UserSession.create_session: the new row; secrets.token_urlsafe and
\* secrets.token_hex hand out values never handed out before
NewSession(user_id, device_id, ip_address) ==
    [user_id |-> user_id,
     device_id |-> device_id,
     ip_address |-> ip_address,
     refresh_token_hash |->
         hash_refresh_token(Len(sessions) + 1, Len(sessions) + 1),
     session_secret |-> Len(sessions) + 1,
     status |-> "active",
     created_at |-> now,
     last_used_at |-> now,
     expires_at |-> now + Days(expires_days),
     revoked_at |-> None]

\* session.status = REVOKED; session.revoked_at = utcnow()
Revoked(s) == [s EXCEPT !.status = "revoked", !.revoked_at = now]

\* UserSession.extend_expiration(days=30)
extend_expiration(s) ==
    IF is_valid(s) THEN [s EXCEPT !.expires_at = now + Days(expires_days)]
    ELSE s

\* a request without a client address
NoIP == ""

\* UserSession.update_activity
update_activity(s, ip_address) ==
    [s EXCEPT !.last_used_at = now,
              !.ip_address = IF ip_address # NoIP THEN ip_address ELSE @]

(* ------------------------- access credentials ------------------------- *)
\* create_access_token(identity, expires_delta=timedelta(hours=1))
NewAccessToken(user_id) ==
    [sub |-> user_id, exp |-> now + Hours(access_token_hours)]

\* app.py check_if_token_revoked (the token_in_blocklist_loader)
check_if_token_revoked(jti) == jti \in blacklisted_tokens

\* decode_token: signature and expiry only
decode_token(bearer) ==
    /\ bearer \in 1..Len(tokens)
    /\ now < tokens[bearer].exp

\* jwt_required without a blocklist loader
Validate_NoBlocklist(bearer) == decode_token(bearer)

\* jwt_required: decode, then the blocklist loader
Validate(bearer) ==
    /\ decode_token(bearer)
    /\ ~check_if_token_revoked(bearer)

\* app.py: the loaders that answer a request whose bearer does not validate
jwt_error(bearer) ==
    IF bearer \notin 1..Len(tokens) THEN "Invalid token"
    ELSE IF ~(now < tokens[bearer].exp) THEN "Token has expired"
    ELSE "Token has been revoked"

(* -------------------------------- time -------------------------------- *)
SessionLifetime == Days(expires_days)

\* the first request arrives an hour after the users were created, so no
\* timestamp a handler writes equals None
Start == Hours(1)

\* the instants at which requests arrive: the start, the instant a session
\* created at the start expires, and one clock unit after it (inside the
\* hour of an access token issued at that instant)
Instants == {Start, Start + SessionLifetime, Start + SessionLifetime + 1}

(* ------------------------ handlers in flight -------------------------- *)
\* the workers (threads, greenlets or processes) that serve requests, each
\* with a database session of its own
Workers == {"w1", "w2"}

\* a worker between requests
Idle == [op |-> "idle", pc |-> "", user |-> NoUser, device |-> NoDevice,
         ip |-> NoIP, target |-> None, stamp |-> 0, rows |-> {}]

(* ---------------------------- fingerprint ----------------------------- *)
\* header values as sequences of characters; a header that is absent is
\* the empty sequence (request.headers.get(name, ''))
FirefoxLinux == <<"F", "x", "/", "L", "i", "n", "u", "x">>
SafariIPhone == <<"S", "f", "/", "i", "P", "h", "o", "n", "e">>
UserAgents == {<<>>, FirefoxLinux, SafariIPhone}
EnglishUS == <<"e", "n", "-", "U", "S", ",", "e", "n", ";", "q", "=", "9">>
EnglishGB == <<"e", "n", "-", "G", "B", ",", "e", "n", ";", "q", "=", "9">>
Languages == {<<>>, EnglishUS, EnglishGB}

\* additional_data: absent, or the dict the frontend script collects
NoAttrs == [given |-> FALSE]
Desktop == [given |-> TRUE, screen_width |-> "1920", screen_height |-> "1080",
            timezone |-> "UTC", color_depth |-> "24", pixel_ratio |-> "1",
            platform |-> "Linux"]
\* a dict with no key, and one with none of the keys the function reads
EmptyDict == [given |-> TRUE]
PlatformOnly == [given |-> TRUE, platform |-> "Linux"]
ClientAttrs == {NoAttrs, EmptyDict, PlatformOnly, Desktop}

\* the keys generate_device_fingerprint copies from additional_data
RecognisedAttrs ==
    {"screen_width", "screen_height", "timezone", "color_depth", "pixel_ratio"}

\* `if additional_data:` with isinstance(additional_data, dict): a dict
\* that has a key
truthy(additional_data) ==
    additional_data.given /\ DOMAIN additional_data # {"given"}

\* additional_data.get(key): the value (as a one-element sequence), or None
\* (the empty sequence, null in the JSON that is hashed)
get(additional_data, key) ==
    IF key \in DOMAIN additional_data THEN <<additional_data[key]>> ELSE <<>>

NoHeaders == [user_agent |-> <<>>, accept_language |-> <<>>]
Headers == [user_agent : UserAgents, accept_language : Languages]

\* accept_language[:10]
language_prefix == 10

\* s[:n]
Take(s, n) == SubSeq(s, 1, IF Len(s) < n THEN Len(s) ELSE n)

\* user_agents.parse: what it reports for the user agents above
parse(user_agent) ==
    IF user_agent = FirefoxLinux
    THEN [browser_family |-> "Firefox", browser_version |-> <<115, 0>>,
          os_family |-> "Linux", os_version |-> <<>>,
          device_family |-> "Other", is_mobile |-> FALSE,
          is_tablet |-> FALSE, is_pc |-> TRUE]
    ELSE IF user_agent = SafariIPhone
    THEN [browser_family |-> "Mobile Safari", browser_version |-> <<16, 6, 1>>,
          os_family |-> "iOS", os_version |-> <<16>>,
          device_family |-> "iPhone", is_mobile |-> TRUE,
          is_tablet |-> FALSE, is_pc |-> FALSE]
    ELSE [browser_family |-> "Other", browser_version |-> <<>>,
          os_family |-> "Other", os_version |-> <<>>,
          device_family |-> "Other", is_mobile |-> FALSE,
          is_tablet |-> FALSE, is_pc |-> FALSE]

\* the version as generate_device_fingerprint prints it: "major.minor",
\* "major", or 'unknown' (the empty sequence)
version_string(version) == Take(version, 2)

\* hashlib.sha256(json.dumps(data, sort_keys=True)).hexdigest()[:32], taken
\* as collision free
sha256_32(data) == <<"sha256", data>>

\* generate_device_fingerprint: the user agent and the language it uses, the
\* request's header when the argument is empty or None
effective_user_agent(user_agent) ==
    IF user_agent = <<>> THEN request.user_agent ELSE user_agent

effective_language(accept_language) ==
    IF accept_language = <<>> THEN request.accept_language
    ELSE accept_language

\* generate_device_fingerprint: the core components of fingerprint_data
core_components(user_agent, accept_language) ==
    [browser_family |-> parse(effective_user_agent(user_agent)).browser_family,
     browser_version |->
        version_string(parse(effective_user_agent(user_agent)).browser_version),
     os_family |-> parse(effective_user_agent(user_agent)).os_family,
     os_version |->
        version_string(parse(effective_user_agent(user_agent)).os_version),
     device_family |-> parse(effective_user_agent(user_agent)).device_family,
     is_mobile |-> parse(effective_user_agent(user_agent)).is_mobile,
     is_tablet |-> parse(effective_user_agent(user_agent)).is_tablet,
     is_pc |-> parse(effective_user_agent(user_agent)).is_pc,
     accept_language |->
        Take(effective_language(accept_language), language_prefix)]

\* generate_device_fingerprint: fingerprint_data, the core components and,
\* for a dict that has a key, fingerprint_data.update({...}) with the five
\* keys, each holding additional_data.get(key)
fingerprint_data(user_agent, accept_language, additional_data) ==
    IF truthy(additional_data)
    THEN [k \in RecognisedAttrs |-> get(additional_data, k)]
            @@ core_components(user_agent, accept_language)
    ELSE core_components(user_agent, accept_language)

\* generate_device_fingerprint: the device id it returns
generate_device_fingerprint(user_agent, accept_language, additional_data) ==
    sha256_32(fingerprint_data(user_agent, accept_language, additional_data))

(* -------------------------------- Init -------------------------------- *)
Init ==
    /\ now = Start
    /\ users = [u \in Users |->
                   [status |-> "active", last_seen |-> 0, is_online |-> FALSE]]
    /\ sessions = <<>>
    /\ tokens = <<>>
    /\ blacklisted_tokens = {}
    /\ connected_users = <<>>
    /\ conns = [c \in Handles |-> NoUser]
    /\ rooms = [c \in Handles |-> {}]
    /\ emitted = <<>>
    /\ request = NoHeaders
    /\ calls = {}
    /\ inflight = [p \in Workers |-> Idle]

Tick ==
    /\ \E t \in Instants : t > now /\ now' = t
    /\ UNCHANGED <<authVars, presenceVars, flightVars>>

(* ------------------------------- login -------------------------------- *)
\* the checks with an answer of its own for a username nobody has
login_error_NamesUnknownUser(username, password) ==
    IF username \notin Users THEN "User not found"
    ELSE IF password # "right" THEN "Invalid credentials"
    ELSE IF users[username].status # "active" THEN "Account is not active"
    ELSE ""

\* login's checks before any state is touched: the error it answers, ""
\* when the credentials pass
login_error(username, password) ==
    IF username \notin Users THEN "Invalid credentials"
    ELSE IF password # "right" THEN "Invalid credentials"
    ELSE IF users[username].status # "active" THEN "Account is not active"
    ELSE ""

\* login's query for a session to rotate: active and unexpired rows of the
\* (user, device) pair
ExistingSessions(user_id, device_id) ==
    {i \in SessionIds : /\ sessions[i].user_id = user_id
                        /\ sessions[i].device_id = device_id
                        /\ sessions[i].status = "active"
                        /\ sessions[i].expires_at > now}

\* the rotation branch without the revocation of the row found
RotateSession_KeepsOld(e, user_id, device_id, ip) ==
    Append([sessions EXCEPT
               ![e] = update_activity(extend_expiration(@), ip)],
           NewSession(user_id, device_id, ip))

\* login, the rotation branch: extend and touch the row found, create the
\* replacement, then revoke the row found
RotateSession(e, user_id, device_id, ip) ==
    Append([sessions EXCEPT
               ![e] = Revoked(update_activity(extend_expiration(@), ip))],
           NewSession(user_id, device_id, ip))

\* login: the table it leaves when remember_me is set (.first() returns
\* any one of the rows of its query)
login_sessions(user_id, device_id, ip) ==
    IF ExistingSessions(user_id, device_id) # {}
    THEN {RotateSession(e, user_id, device_id, ip) :
             e \in ExistingSessions(user_id, device_id)}
    ELSE {Append(sessions, NewSession(user_id, device_id, ip))}

\* login: what it answers
login_response(username, password, device_id, remember_me) ==
    IF login_error(username, password) # ""
    THEN Response("login", 401, login_error(username, password))
    ELSE [Response("login", 200, "") EXCEPT
             !.user = username,
             !.device = device_id,
             !.remember = remember_me,
             !.access_token = Len(tokens) + 1,
             !.sid = IF remember_me THEN Len(sessions) + 1 ELSE None,
             !.refresh_token = IF remember_me THEN Len(sessions) + 1 ELSE 0]

LoginRejected(username, password) ==
    /\ login_error(username, password) # ""
    /\ UNCHANGED vars

LoginAccepted(username, password, device_id, remember_me, ip) ==
    /\ login_error(username, password) = ""
    /\ Len(tokens) < MaxTokens
    /\ remember_me => Len(sessions) < MaxSessions
    /\ tokens' = Append(tokens, NewAccessToken(username))
    /\ IF remember_me
       THEN sessions' \in login_sessions(username, device_id, ip)
       ELSE UNCHANGED sessions
    /\ users' = [users EXCEPT ![username].last_seen = now]
    /\ UNCHANGED <<now, blacklisted_tokens, presenceVars, flightVars>>

Login(username, password, device_id, remember_me, ip) ==
    \/ LoginRejected(username, password)
    \/ LoginAccepted(username, password, device_id, remember_me, ip)

(* ------------------------------ refresh ------------------------------- *)
\* refresh: what it answers
refresh_response(refresh_token, device_id) ==
    IF refresh_token = 0 \/ device_id = NoDevice
    THEN Response("refresh", 401, "No refresh token or device ID found")
    ELSE IF verify_refresh_token(refresh_token, device_id) = None
    THEN [Response("refresh", 401, "Invalid or expired refresh token")
             EXCEPT !.cleared = TRUE]
    ELSE IF users[sessions[verify_refresh_token(refresh_token,
                                                device_id)].user_id].status
            # "active"
    THEN [Response("refresh", 401, "User not found or inactive") EXCEPT
             !.sid = verify_refresh_token(refresh_token, device_id)]
    ELSE [Response("refresh", 200, "") EXCEPT
             !.sid = verify_refresh_token(refresh_token, device_id),
             !.user = sessions[verify_refresh_token(refresh_token,
                                                    device_id)].user_id,
             !.device = device_id,
             !.access_token = Len(tokens) + 1]

\* no cookie, or no session verifies: nothing is written
RefreshRejected(refresh_token, device_id) ==
    /\ refresh_response(refresh_token, device_id).sid = None
    /\ UNCHANGED vars

\* the token verified (verify_refresh_token stamped last_used_at and
\* committed) but the owner is not an active user
RefreshInactive(refresh_token, device_id) ==
    /\ refresh_response(refresh_token, device_id).sid # None
    /\ refresh_response(refresh_token, device_id).code = 401
    /\ sessions' =
          [sessions EXCEPT
              ![verify_refresh_token(refresh_token, device_id)].last_used_at
                  = now]
    /\ UNCHANGED <<now, users, tokens, blacklisted_tokens, presenceVars,
                   flightVars>>

RefreshAccepted(refresh_token, device_id, ip) ==
    /\ refresh_response(refresh_token, device_id).code = 200
    /\ Len(tokens) < MaxTokens
    /\ LET s == verify_refresh_token(refresh_token, device_id) IN
          /\ tokens' = Append(tokens, NewAccessToken(sessions[s].user_id))
          /\ sessions' = [sessions EXCEPT ![s] = update_activity(@, ip)]
          /\ users' = [users EXCEPT ![sessions[s].user_id].last_seen = now]
    /\ UNCHANGED <<now, blacklisted_tokens, presenceVars, flightVars>>

Refresh(refresh_token, device_id, ip) ==
    \/ RefreshRejected(refresh_token, device_id)
    \/ RefreshInactive(refresh_token, device_id)
    \/ RefreshAccepted(refresh_token, device_id, ip)

\* a jwt_required route answers 401 and runs no handler
JwtRejected(bearer) ==
    /\ ~Validate(bearer)
    /\ UNCHANGED vars

(* ------------------------------- logout ------------------------------- *)
\* logout's and logout_all's query: rows of the (user, device) pair whose
\* status is active (no expiry filter)
DeviceSessions(user_id, device_id) ==
    {i \in SessionIds : /\ sessions[i].user_id = user_id
                        /\ sessions[i].device_id = device_id
                        /\ sessions[i].status = "active"}

\* logout: the rows .first() can return, {None} when device_id is missing
\* or the query is empty
LogoutTargets(user_id, device_id) ==
    IF device_id = NoDevice \/ DeviceSessions(user_id, device_id) = {}
    THEN {None}
    ELSE DeviceSessions(user_id, device_id)

\* logout: the table after the row found is revoked
LogoutSessions(s) ==
    IF s = None THEN sessions ELSE [sessions EXCEPT ![s] = Revoked(@)]

\* logout: what it answers when it revoked row s
logout_response(bearer, device_id, s) ==
    IF ~Validate(bearer) THEN Response("logout", 401, jwt_error(bearer))
    ELSE [Response("logout", 200, "") EXCEPT
             !.user = tokens[bearer].sub, !.device = device_id,
             !.access_token = bearer, !.sid = s, !.cleared = TRUE]

LogoutAccepted(bearer, device_id) ==
    /\ Validate(bearer)
    /\ \E s \in LogoutTargets(tokens[bearer].sub, device_id) :
          sessions' = LogoutSessions(s)
    /\ blacklisted_tokens' = blacklisted_tokens \cup {bearer}
    /\ UNCHANGED <<now, users, tokens, presenceVars, flightVars>>

Logout(bearer, device_id) ==
    \/ JwtRejected(bearer)
    \/ LogoutAccepted(bearer, device_id)

(* ----------------------------- logout-all ----------------------------- *)
\* the query without its user filter
RevokeAllTargets_AnyUser(user_id, except_session_id) ==
    {i \in SessionIds : /\ sessions[i].status = "active"
                        /\ except_session_id # None => i # except_session_id}

\* UserSession.revoke_all_user_sessions: the rows its query selects
RevokeAllTargets(user_id, except_session_id) ==
    {i \in SessionIds : /\ sessions[i].user_id = user_id
                        /\ sessions[i].status = "active"
                        /\ except_session_id # None => i # except_session_id}

\* UserSession.revoke_all_user_sessions: the table afterwards
revoke_all_user_sessions(user_id, except_session_id) ==
    [i \in SessionIds |->
        IF i \in RevokeAllTargets(user_id, except_session_id)
        THEN Revoked(sessions[i]) ELSE sessions[i]]

\* logout_all: what it answers (the device_id cookie it reads selects
\* current_session, which nothing uses)
logout_all_response(bearer) ==
    IF ~Validate(bearer) THEN Response("logout_all", 401, jwt_error(bearer))
    ELSE [Response("logout_all", 200, "") EXCEPT
             !.user = tokens[bearer].sub,
             !.access_token = bearer, !.cleared = TRUE,
             !.count = Cardinality(RevokeAllTargets(tokens[bearer].sub, None))]

\* logout_all putting the id of every access token of the user into the set
LogoutAllAccepted_AllUserTokens(bearer) ==
    /\ Validate(bearer)
    /\ sessions' = revoke_all_user_sessions(tokens[bearer].sub, None)
    /\ blacklisted_tokens' = blacklisted_tokens \cup
          {j \in 1..Len(tokens) : tokens[j].sub = tokens[bearer].sub}
    /\ UNCHANGED <<now, users, tokens, presenceVars, flightVars>>

LogoutAllAccepted(bearer) ==
    /\ Validate(bearer)
    /\ sessions' = revoke_all_user_sessions(tokens[bearer].sub, None)
    /\ blacklisted_tokens' = blacklisted_tokens \cup {bearer}
    /\ UNCHANGED <<now, users, tokens, presenceVars, flightVars>>

LogoutAll(bearer) ==
    \/ JwtRejected(bearer)
    \/ LogoutAllAccepted(bearer)

(* --------------------------- revoke session --------------------------- *)
\* the lookup without its user_id filter
RevokeTarget_AnyOwner(session_id, user_id) ==
    IF session_id \in SessionIds THEN session_id ELSE None

\* UserSession.revoke_session: the row query.first() returns, None when the
\* id does not exist under the scope
RevokeTarget(session_id, user_id) ==
    IF session_id \in SessionIds
    THEN IF user_id # "" /\ sessions[session_id].user_id # user_id
         THEN None ELSE session_id
    ELSE None

\* UserSession.revoke_session: the table afterwards
revoke_session(session_id, user_id) ==
    IF RevokeTarget(session_id, user_id) # None
    THEN [sessions EXCEPT ![session_id] = Revoked(@)]
    ELSE sessions

\* UserSession.revoke_session: its return value
revoke_session_result(session_id, user_id) ==
    RevokeTarget(session_id, user_id) # None

\* DELETE /sessions/<id>: what it answers
revoke_session_response(bearer, session_id) ==
    IF ~Validate(bearer)
    THEN Response("revoke_session", 401, jwt_error(bearer))
    ELSE IF revoke_session_result(session_id, tokens[bearer].sub)
    THEN [Response("revoke_session", 200, "") EXCEPT
             !.user = tokens[bearer].sub, !.sid = session_id, !.ret = TRUE,
             !.prior = sessions[session_id].status]
    ELSE [Response("revoke_session", 404, "Session not found") EXCEPT
             !.user = tokens[bearer].sub, !.sid = session_id]

\* DELETE /sessions/<id>
RevokeSessionAccepted(bearer, session_id) ==
    /\ Validate(bearer)
    /\ sessions' = revoke_session(session_id, tokens[bearer].sub)
    /\ UNCHANGED <<now, users, tokens, blacklisted_tokens, presenceVars,
                   flightVars>>

RevokeSession(bearer, session_id) ==
    \/ JwtRejected(bearer)
    \/ RevokeSessionAccepted(bearer, session_id)

(* --------------------------- list sessions ---------------------------- *)
\* UserSession.to_dict without the include_sensitive flag
session_summary(i) ==
    [id |-> i,
     device_id |-> sessions[i].device_id,
     ip_address |-> sessions[i].ip_address,
     status |-> sessions[i].status,
     created_at |-> sessions[i].created_at,
     last_used_at |-> sessions[i].last_used_at,
     expires_at |-> sessions[i].expires_at,
     is_current |-> FALSE,
     is_valid |-> is_valid(sessions[i])]

\* to_dict adding the secret whatever the flag says
to_dict_AlwaysSensitive(i, include_sensitive) ==
    session_summary(i) @@ [session_secret |-> sessions[i].session_secret]

\* UserSession.to_dict (the columns of the model)
to_dict(i, include_sensitive) ==
    IF include_sensitive
    THEN session_summary(i) @@
         [session_secret |-> sessions[i].session_secret]
    ELSE session_summary(i)

\* get_user_sessions: the rows its query selects
ListedSessions(user_id) ==
    {i \in SessionIds : /\ sessions[i].user_id = user_id
                        /\ sessions[i].status = "active"
                        /\ sessions[i].expires_at > now}

\* GET /sessions: the summaries it answers (their order, by last_used_at,
\* is left out) and their number
get_user_sessions(user_id, current_device_id) ==
    [sessions |->
        {[to_dict(i, FALSE) EXCEPT
             !.is_current = (sessions[i].device_id = current_device_id)] :
            i \in ListedSessions(user_id)},
     total |-> Cardinality(ListedSessions(user_id))]

(* ------------------------------- sweep -------------------------------- *)
\* the query without its status filter
ExpiredSessions_AnyStatus ==
    {i \in SessionIds : sessions[i].expires_at < now}

\* UserSession.cleanup_expired_sessions: the rows its query selects
ExpiredSessions ==
    {i \in SessionIds : /\ sessions[i].expires_at < now
                        /\ sessions[i].status = "active"}

\* UserSession.cleanup_expired_sessions: its return value
cleanup_expired_count == Cardinality(ExpiredSessions)

\* UserSession.cleanup_expired_sessions
cleanup_expired_sessions ==
    /\ sessions' = [i \in SessionIds |->
                       IF i \in ExpiredSessions
                       THEN [sessions[i] EXCEPT !.status = "expired"]
                       ELSE sessions[i]]
    /\ UNCHANGED <<now, users, tokens, blacklisted_tokens, presenceVars,
                   flightVars>>

(* ---------------------------- user status ----------------------------- *)
\* PUT /users/<id> by an admin: user.status = UserStatus(data['status'])
update_user(user_id, status) ==
    /\ users[user_id].status # status
    /\ users' = [users EXCEPT ![user_id].status = status]
    /\ UNCHANGED <<now, sessions, tokens, blacklisted_tokens, presenceVars,
                   flightVars>>

(* ------------------------------ presence ------------------------------ *)
\* the id of flask's `session` proxy object, one object per process
ProxyId == "id(session)"

\* session.get('session_id', id(session)): nothing in the application
\* stores 'session_id' in the Flask session, so the key every handler
\* computes is id(session), the same for every client
session_key(c) == ProxyId

\* the clients that are connected
Connected == {c \in Handles : conns[c] # NoUser}

\* connected_users.get(key)
registry_get(key) ==
    IF key \in DOMAIN connected_users THEN connected_users[key] ELSE NoUser

\* connected_users[key] = user_id
registry_put(key, user_id) ==
    [k \in DOMAIN connected_users \cup {key} |->
        IF k = key THEN user_id ELSE connected_users[k]]

\* del connected_users[key]
registry_del(key) ==
    [k \in DOMAIN connected_users \ {key} |-> connected_users[k]]

\* on_connect: the rooms it joins
JoinedRooms(user_id) ==
    {<<"user", user_id>>} \cup
    (IF department_id[user_id] # ""
     THEN {<<"dept", department_id[user_id]>>} ELSE {})

\* the 'user_status_changed' event
StatusChanged(user_id, is_online, to) ==
    [event |-> "user_status_changed", user_id |-> user_id,
     is_online |-> is_online, last_seen |-> now, to |-> to]

\* on_connect: does it accept the credential (auth 0: no token given)
connect_accepts(auth) == auth # 0 /\ decode_token(auth)

\* on_connect returning False: disconnect(), nothing recorded
OnConnectRejected(c, auth) ==
    /\ conns[c] = NoUser
    /\ ~connect_accepts(auth)
    /\ emitted' = <<>>
    /\ UNCHANGED <<now, authVars, connected_users, conns, rooms, flightVars>>

\* on_connect returning True
OnConnectAccepted(c, auth) ==
    /\ conns[c] = NoUser
    /\ connect_accepts(auth)
    /\ connected_users' = registry_put(session_key(c), tokens[auth].sub)
    /\ rooms' = [rooms EXCEPT ![c] = JoinedRooms(tokens[auth].sub)]
    /\ users' = [users EXCEPT ![tokens[auth].sub].is_online = TRUE,
                              ![tokens[auth].sub].last_seen = now]
    /\ emitted' = <<StatusChanged(tokens[auth].sub, TRUE, Connected \ {c})>>
    /\ conns' = [conns EXCEPT ![c] = tokens[auth].sub]
    /\ UNCHANGED <<now, sessions, tokens, blacklisted_tokens, flightVars>>

\* the statements of on_connect that can raise after the registry was
\* written: db.session.commit() and emit()
Faults == {"commit", "emit"}

\* on_connect when a statement raises after connected_users was written:
\* the except branch calls disconnect() and returns False, and undoes
\* nothing; a failed commit leaves the user row as it was, a failed emit
\* comes after the commit; the dropped client is in no room
OnConnectFaulted(c, auth, fault) ==
    /\ conns[c] = NoUser
    /\ connect_accepts(auth)
    /\ connected_users' = registry_put(session_key(c), tokens[auth].sub)
    /\ rooms' = [rooms EXCEPT ![c] = {}]
    /\ users' = IF fault = "emit"
                THEN [users EXCEPT ![tokens[auth].sub].is_online = TRUE,
                                   ![tokens[auth].sub].last_seen = now]
                ELSE users
    /\ emitted' = <<>>
    /\ UNCHANGED <<now, sessions, tokens, blacklisted_tokens, conns,
                   flightVars>>

\* on_disconnect of a connected client
OnDisconnect(c) ==
    /\ conns[c] # NoUser
    /\ conns' = [conns EXCEPT ![c] = NoUser]
    /\ rooms' = [rooms EXCEPT ![c] = {}]
    /\ IF registry_get(session_key(c)) # NoUser
       THEN /\ connected_users' = registry_del(session_key(c))
            /\ users' = [users EXCEPT
                  ![registry_get(session_key(c))].is_online = FALSE,
                  ![registry_get(session_key(c))].last_seen = now]
            /\ emitted' = <<StatusChanged(registry_get(session_key(c)),
                                          FALSE, Connected \ {c})>>
       ELSE /\ emitted' = <<>>
            /\ UNCHANGED <<connected_users, users>>
    /\ UNCHANGED <<now, sessions, tokens, blacklisted_tokens, flightVars>>

\* on_get_online_users and GET /users/online: the users they list
get_online_users == {u \in Users : users[u].is_online}

\* the server process ends and a new one starts: the module-level
\* connected_users and blacklisted_tokens are empty again, every socket is
\* gone without its disconnect handler having run, the database is as it
\* was, and the access tokens clients hold are the ones they held
Restart ==
    /\ connected_users' = <<>>
    /\ blacklisted_tokens' = {}
    /\ conns' = [c \in Handles |-> NoUser]
    /\ rooms' = [c \in Handles |-> {}]
    /\ emitted' = <<>>
    /\ inflight' = [p \in Workers |-> Idle]
    /\ UNCHANGED <<now, users, sessions, tokens, request, calls>>

(* ----------------- the handlers, statement by statement --------------- *)
\* Each action below is the stretch of a handler up to and including one
\* db.session.commit(); a commit writes the columns the handler assigned,
\* to the row with the object's id (UPDATE ... WHERE id = ...), and a
\* handler reads a row again after its own commit.

\* login with remember_me, credentials accepted, up to the commits of
\* extend_expiration and update_activity: the access token is created and
\* the (user, device) session to rotate is looked up, extended and touched
LoginLookup(w, username, device_id, ip) ==
    /\ inflight[w] = Idle
    /\ login_error(username, "right") = ""
    /\ Len(tokens) < MaxTokens
    /\ tokens' = Append(tokens, NewAccessToken(username))
    /\ IF ExistingSessions(username, device_id) = {}
       THEN /\ inflight' = [inflight EXCEPT ![w] =
                   [Idle EXCEPT !.op = "login", !.pc = "create",
                                !.user = username, !.device = device_id,
                                !.ip = ip]]
            /\ UNCHANGED sessions
       ELSE \E e \in ExistingSessions(username, device_id) :
               /\ inflight' = [inflight EXCEPT ![w] =
                      [Idle EXCEPT !.op = "login", !.pc = "create",
                                   !.user = username, !.device = device_id,
                                   !.ip = ip, !.target = e]]
               /\ sessions' = [sessions EXCEPT ![e] =
                      update_activity(extend_expiration(@), ip)]
    /\ UNCHANGED <<now, users, blacklisted_tokens, presenceVars, request,
                   calls>>

\* login: UserSession.create_session, which commits the new row
LoginCreate(w) ==
    /\ inflight[w].op = "login" /\ inflight[w].pc = "create"
    /\ Len(sessions) < MaxSessions
    /\ sessions' = Append(sessions,
                          NewSession(inflight[w].user, inflight[w].device,
                                     inflight[w].ip))
    /\ inflight' = [inflight EXCEPT ![w].pc = "finish"]
    /\ UNCHANGED <<now, users, tokens, blacklisted_tokens, presenceVars,
                   request, calls>>

\* login: the row found is marked revoked, last_seen is set, and the final
\* db.session.commit() writes both
LoginFinish(w) ==
    /\ inflight[w].op = "login" /\ inflight[w].pc = "finish"
    /\ sessions' = IF inflight[w].target = None THEN sessions
                   ELSE [sessions EXCEPT ![inflight[w].target] = Revoked(@)]
    /\ users' = [users EXCEPT ![inflight[w].user].last_seen = now]
    /\ inflight' = [inflight EXCEPT ![w] = Idle]
    /\ UNCHANGED <<now, tokens, blacklisted_tokens, presenceVars, request,
                   calls>>

\* refresh, up to the clock read of verify_refresh_token: the query, the
\* hash comparison and session.last_used_at = datetime.utcnow()
RefreshVerify(w, refresh_token, device_id, ip) ==
    /\ inflight[w] = Idle
    /\ verify_refresh_token(refresh_token, device_id) # None
    /\ inflight' = [inflight EXCEPT ![w] =
           [Idle EXCEPT !.op = "refresh", !.pc = "stamp",
                        !.device = device_id, !.ip = ip,
                        !.target = verify_refresh_token(refresh_token,
                                                        device_id),
                        !.stamp = now]]
    /\ UNCHANGED <<now, authVars, presenceVars, request, calls>>

\* refresh: the commit of verify_refresh_token
RefreshStamp(w) ==
    /\ inflight[w].op = "refresh" /\ inflight[w].pc = "stamp"
    /\ sessions' = [sessions EXCEPT
                       ![inflight[w].target].last_used_at = inflight[w].stamp]
    /\ inflight' = [inflight EXCEPT ![w].pc = "check"]
    /\ UNCHANGED <<now, users, tokens, blacklisted_tokens, presenceVars,
                   request, calls>>

\* refresh: session.is_valid() and the user check on the rows as they are
\* now, then create_access_token and the clock read of update_activity; a
\* failed check ends the request with 401
RefreshCheck(w) ==
    /\ inflight[w].op = "refresh" /\ inflight[w].pc = "check"
    /\ IF /\ is_valid(sessions[inflight[w].target])
          /\ users[sessions[inflight[w].target].user_id].status = "active"
       THEN /\ Len(tokens) < MaxTokens
            /\ tokens' = Append(tokens,
                   NewAccessToken(sessions[inflight[w].target].user_id))
            /\ inflight' = [inflight EXCEPT ![w].pc = "touch",
                                            ![w].stamp = now]
       ELSE /\ inflight' = [inflight EXCEPT ![w] = Idle]
            /\ UNCHANGED tokens
    /\ UNCHANGED <<now, users, sessions, blacklisted_tokens, presenceVars,
                   request, calls>>

\* refresh: the commit of update_activity, then last_seen and its commit
RefreshTouch(w) ==
    /\ inflight[w].op = "refresh" /\ inflight[w].pc = "touch"
    /\ sessions' = [sessions EXCEPT
          ![inflight[w].target].last_used_at = inflight[w].stamp,
          ![inflight[w].target].ip_address =
              IF inflight[w].ip # NoIP THEN inflight[w].ip ELSE @]
    /\ users' = [users EXCEPT
          ![sessions[inflight[w].target].user_id].last_seen = now]
    /\ inflight' = [inflight EXCEPT ![w] = Idle]
    /\ UNCHANGED <<now, tokens, blacklisted_tokens, presenceVars, request,
                   calls>>

\* cleanup_expired_sessions: its query
SweepQuery(w) ==
    /\ inflight[w] = Idle
    /\ ExpiredSessions # {}
    /\ inflight' = [inflight EXCEPT ![w] =
           [Idle EXCEPT !.op = "sweep", !.pc = "commit",
                        !.rows = ExpiredSessions]]
    /\ UNCHANGED <<now, authVars, presenceVars, request, calls>>

\* cleanup_expired_sessions: what it returns
sweep_count(w) == Cardinality(inflight[w].rows)

\* cleanup_expired_sessions: status = EXPIRED on every row it had read, and
\* the commit
SweepCommit(w) ==
    /\ inflight[w].op = "sweep" /\ inflight[w].pc = "commit"
    /\ sessions' = [i \in SessionIds |->
                       IF i \in inflight[w].rows
                       THEN [sessions[i] EXCEPT !.status = "expired"]
                       ELSE sessions[i]]
    /\ inflight' = [inflight EXCEPT ![w] = Idle]
    /\ UNCHANGED <<now, users, tokens, blacklisted_tokens, presenceVars,
                   request, calls>>

\* a request arrives: flask.request now carries its headers
NewRequest(headers) ==
    /\ request # headers
    /\ request' = headers
    /\ UNCHANGED <<now, authVars, presenceVars, calls, inflight>>

\* a call of generate_device_fingerprint during the current request
Fingerprint(user_agent, accept_language, additional_data) ==
    /\ Cardinality(calls) < MaxCalls
    /\ calls' = calls \cup
          {[args |-> <<user_agent, accept_language, additional_data>>,
            device_id |-> generate_device_fingerprint(
                              user_agent, accept_language, additional_data),
            data |-> fingerprint_data(
                         user_agent, accept_language, additional_data)]}
    /\ UNCHANGED <<now, authVars, presenceVars, request, inflight>>

(* ------------------------------- Spec --------------------------------- *)
Next ==
    \/ Tick
    \/ \E u \in Usernames, p \in Passwords : LoginRejected(u, p)
    \/ \E u \in Users, d \in Devices, r \in BOOLEAN, ip \in IPs :
          LoginAccepted(u, "right", d, r, ip)
    \/ \E t \in RefreshCookies, d \in DeviceCookies : RefreshRejected(t, d)
    \/ \E t \in RefreshCookies, d \in Devices, ip \in IPs :
          RefreshAccepted(t, d, ip)
    \/ \E b \in Bearers : JwtRejected(b)
    \/ \E b \in Bearers, d \in DeviceCookies : LogoutAccepted(b, d)
    \/ \E b \in Bearers : LogoutAllAccepted(b)
    \/ \E b \in Bearers, i \in 1..MaxSessions : RevokeSessionAccepted(b, i)
    \/ cleanup_expired_sessions

Spec == Init /\ [][Next]_vars

\* the presence layer, with the logins that hand out its credentials
NextPresence ==
    \/ Tick
    \/ \E u \in Users, d \in Devices, ip \in IPs :
          LoginAccepted(u, "right", d, FALSE, ip)
    \/ \E c \in Handles, a \in Bearers : OnConnectRejected(c, a)
    \/ \E c \in Handles, a \in Bearers : OnConnectAccepted(c, a)
    \/ \E c \in Handles, a \in Bearers, f \in Faults :
          OnConnectFaulted(c, a, f)
    \/ \E c \in Handles : OnDisconnect(c)

SpecPresence == Init /\ [][NextPresence]_vars

\* the socket handlers when no statement of theirs raises, with the logins
\* that hand out the credentials and the logouts that revoke them
NextSockets ==
    \/ Tick
    \/ \E u \in Users, d \in Devices, ip \in IPs :
          LoginAccepted(u, "right", d, FALSE, ip)
    \/ \E b \in Bearers : LogoutAccepted(b, NoDevice)
    \/ \E c \in Handles, a \in Bearers : OnConnectRejected(c, a)
    \/ \E c \in Handles, a \in Bearers : OnConnectAccepted(c, a)
    \/ \E c \in Handles : OnDisconnect(c)

SpecSockets == Init /\ [][NextSockets]_vars

\* the socket handlers across restarts of the server process
NextRestart ==
    \/ Tick
    \/ \E u \in Users, d \in Devices, ip \in IPs :
          LoginAccepted(u, "right", d, FALSE, ip)
    \/ \E c \in Handles, a \in Bearers : OnConnectRejected(c, a)
    \/ \E c \in Handles, a \in Bearers : OnConnectAccepted(c, a)
    \/ \E c \in Handles : OnDisconnect(c)
    \/ Restart

SpecRestart == Init /\ [][NextRestart]_vars

\* the statuses an admin gives a user in the behaviours explored
Statuses == {"active", "suspended"}

\* logins and refreshes while an admin changes the status of users
NextAccounts ==
    \/ Tick
    \/ \E u \in Usernames, p \in Passwords : LoginRejected(u, p)
    \/ \E u \in Users, d \in Devices, ip \in IPs :
          LoginAccepted(u, "right", d, TRUE, ip)
    \/ \E u \in Users, st \in Statuses : update_user(u, st)
    \/ \E t \in RefreshCookies, d \in DeviceCookies : RefreshRejected(t, d)
    \/ \E t \in RefreshCookies, d \in Devices : RefreshInactive(t, d)
    \/ \E t \in RefreshCookies, d \in Devices, ip \in IPs :
          RefreshAccepted(t, d, ip)

SpecAccounts == Init /\ [][NextAccounts]_vars

\* the fingerprint generator, called with any arguments during any request
NextFingerprint ==
    \/ \E h \in Headers : NewRequest(h)
    \/ \E ua \in UserAgents, al \in Languages, ad \in ClientAttrs :
          Fingerprint(ua, al, ad)

SpecFingerprint == Init /\ [][NextFingerprint]_vars

\* the handlers served by several workers at once
NextConcurrent ==
    \/ Tick
    \/ \E w \in Workers, u \in Users, d \in Devices, ip \in IPs :
          LoginLookup(w, u, d, ip)
    \/ \E w \in Workers : LoginCreate(w)
    \/ \E w \in Workers : LoginFinish(w)
    \/ \E w \in Workers, t \in RefreshCookies, d \in Devices, ip \in IPs :
          RefreshVerify(w, t, d, ip)
    \/ \E w \in Workers : RefreshStamp(w)
    \/ \E w \in Workers : RefreshCheck(w)
    \/ \E w \in Workers : RefreshTouch(w)
    \/ \E w \in Workers : SweepQuery(w)
    \/ \E w \in Workers : SweepCommit(w)
    \/ \E b \in Bearers, i \in 1..MaxSessions : RevokeSessionAccepted(b, i)

SpecConcurrent == Init /\ [][NextConcurrent]_vars

(* ================================ claims =============================== *)
Max(S) == CHOOSE x \in S : \A y \in S : x >= y

\* the rows of a (user, device) pair
PairSessions(user_id, device_id) ==
    {i \in SessionIds : /\ sessions[i].user_id = user_id
                        /\ sessions[i].device_id = device_id}

\* C1 (what a session must satisfy for a token and device to verify)
Verifies(i, refresh_token, device_id) ==
    /\ sessions[i].device_id = device_id
    /\ sessions[i].status = "active"
    /\ sessions[i].expires_at > now
    /\ sessions[i].refresh_token_hash =
          hash_refresh_token(refresh_token, sessions[i].session_secret)

\* C1: verify_refresh_token(token, device) returns a session exactly when
\* some session of that device is active, unexpired and stores
\* digest(token, secret), and then returns such a session; a revoked
\* session's own token does not verify, and a token does not verify with a
\* device id other than its session's.
C1_VerifyIff ==
    /\ \A t \in RefreshCookies, d \in DeviceCookies :
          /\ (verify_refresh_token(t, d) # None)
                <=> (\E i \in SessionIds : Verifies(i, t, d))
          /\ verify_refresh_token(t, d) # None
                => Verifies(verify_refresh_token(t, d), t, d)
    /\ \A i \in SessionIds :
          /\ sessions[i].status = "revoked"
                => verify_refresh_token(RawToken(i), sessions[i].device_id)
                      = None
          /\ \A d \in DeviceCookies \ {sessions[i].device_id} :
                verify_refresh_token(RawToken(i), d) = None

\* C1 witness: a revoked session whose own token is refused on its own
\* device, beside a session whose token verifies on its device only
C1_Witness ==
    /\ \E i \in SessionIds :
          /\ sessions[i].status = "revoked"
          /\ sessions[i].expires_at > now
          /\ verify_refresh_token(RawToken(i), sessions[i].device_id) = None
    /\ \E j \in SessionIds :
          /\ verify_refresh_token(RawToken(j), sessions[j].device_id) = j
          /\ \E d \in Devices : verify_refresh_token(RawToken(j), d) = None

\* C2: when a remember-me login follows an earlier remember-me login of the
\* same user on the same device, whose session nothing has touched since,
\* afterwards exactly one session of the pair has status active and the
\* earlier login's session has status revoked.
C2_ReloginLeavesOneActive ==
    [][\A u \in Users, d \in Devices, ip \in IPs :
          (/\ LoginAccepted(u, "right", d, TRUE, ip)
           /\ PairSessions(u, d) # {}
           /\ sessions[Max(PairSessions(u, d))].status = "active")
          => /\ Cardinality({i \in DOMAIN sessions' :
                                /\ sessions'[i].user_id = u
                                /\ sessions'[i].device_id = d
                                /\ sessions'[i].status = "active"}) = 1
             /\ sessions'[Max(PairSessions(u, d))].status = "revoked"]_vars

\* C3: an id in the revocation set stays in it, no token whose id is in it
\* validates (expired or not), and logout and logout-all put the id of the
\* token they were called with into it.
C3_RevokedStaysInvalid ==
    [][/\ blacklisted_tokens \subseteq blacklisted_tokens'
       /\ \A j \in blacklisted_tokens' : ~Validate(j)'
       /\ blacklisted_tokens' # blacklisted_tokens
             => /\ \A b \in Bearers, d \in DeviceCookies :
                      LogoutAccepted(b, d) => (Validate(b) /\ ~Validate(b)')
                /\ \A b \in Bearers :
                      LogoutAllAccepted(b)
                      => (Validate(b) /\ ~Validate(b)')]_vars

\* C3 witness: a token that is in the revocation set before its expiry
C3_Witness ==
    \E j \in blacklisted_tokens : decode_token(j) /\ ~Validate(j)

\* C4: a user's online flag is set exactly when some connected client is
\* connected as that user; with two clients of one user connected,
\* disconnecting one leaves the flag set.
C4_OnlineIffConnected ==
    \A u \in Users : users[u].is_online <=> (\E c \in Handles : conns[c] = u)

\* C5: an accepted connect emits exactly one user_status_changed event with
\* is_online true for the connecting user, delivered to every other
\* connected client and not to the connecting one; the disconnect of a
\* connected client emits exactly one with is_online false for that
\* client's user, delivered to every client that remains connected.
C5_OnePresenceEvent ==
    [][/\ \A c \in Handles, a \in Bearers :
             OnConnectAccepted(c, a)
             => emitted' = <<StatusChanged(tokens[a].sub, TRUE,
                                           Connected \ {c})>>
       /\ \A c \in Handles :
             OnDisconnect(c)
             => /\ Len(emitted') = 1
                /\ emitted'[1].is_online = FALSE
                /\ emitted'[1].user_id = conns[c]
                /\ emitted'[1].to = Connected \ {c}]_vars

\* C6: logout-all by a user revokes exactly that user's active sessions and
\* changes no other row; afterwards none of the user's refresh tokens
\* verifies with any device id, and a session that is not active never
\* becomes active or verifies on its device again.
C6_LogoutAllRevokesExactly ==
    [][/\ \A b \in Bearers \ blacklisted_tokens :
             (b \in blacklisted_tokens' /\ LogoutAllAccepted(b))
             => /\ DOMAIN sessions' = DOMAIN sessions
                /\ \A i \in SessionIds :
                      /\ sessions'[i] =
                            IF /\ sessions[i].user_id = tokens[b].sub
                               /\ sessions[i].status = "active"
                            THEN Revoked(sessions[i]) ELSE sessions[i]
                      /\ sessions[i].user_id = tokens[b].sub
                            => \A d \in DeviceCookies :
                                  /\ verify_refresh_token(RawToken(i), d)'
                                        = None
                                  /\ refresh_response(RawToken(i), d)'.code
                                        = 401
       /\ \A i \in SessionIds :
             sessions[i].status # "active"
             => /\ sessions'[i].status # "active"
                /\ verify_refresh_token(RawToken(i),
                                        sessions[i].device_id)' = None]_vars

\* C6 witness: logout-all has revoked two unexpired sessions of one user on
\* two devices at one instant, beside its revoked access token
C6_Witness ==
    \E b \in blacklisted_tokens : \E i, j \in SessionIds :
        /\ sessions[i].user_id = tokens[b].sub
        /\ sessions[j].user_id = tokens[b].sub
        /\ sessions[i].device_id # sessions[j].device_id
        /\ sessions[i].status = "revoked" /\ sessions[j].status = "revoked"
        /\ sessions[i].revoked_at = sessions[j].revoked_at
        /\ sessions[i].expires_at > now /\ sessions[j].expires_at > now

\* the raw refresh token of the row created last
NewestToken == RawToken(Len(sessions))

\* C7 (the state a remember-me login leaves): the token just returned
\* refreshes on its device, with an access token id that no issued token
\* has, and is refused with any other device id
FreshLoginRefreshes(d) ==
    /\ refresh_response(NewestToken, d).code = 200
    /\ refresh_response(NewestToken, d).sid = Len(sessions)
    /\ refresh_response(NewestToken, d).access_token \notin 1..Len(tokens)
    /\ \A d2 \in Devices \ {d} :
          /\ refresh_response(NewestToken, d2).code = 401
          /\ refresh_response(NewestToken, d2).error
                = "Invalid or expired refresh token"
          /\ refresh_response(NewestToken, d2).access_token = 0

\* C7: right after a remember-me login on a device, refresh with the token
\* it returned and that device answers 200 with a new access token id, and
\* with any other device answers "Invalid or expired refresh token"; every
\* refresh that issues a token was called with the device of the token's
\* session, appends one token with an unused id and leaves the rest.
C7_RefreshDeviceBound ==
    [][tokens' # tokens
       => /\ \A u \in Users, d \in Devices, ip \in IPs :
                LoginAccepted(u, "right", d, TRUE, ip)
                => FreshLoginRefreshes(d)'
          /\ \A t \in RefreshCookies, d \in Devices, ip \in IPs :
                RefreshAccepted(t, d, ip)
                => /\ \E i \in SessionIds :
                         RawToken(i) = t /\ sessions[i].device_id = d
                   /\ Len(tokens') = Len(tokens) + 1
                   /\ \A j \in 1..Len(tokens) : tokens'[j] = tokens[j]]_vars

\* C7 witness: a refresh was served for a session an instant after its
\* login, while the same token is refused with the other device
C7_Witness ==
    \E i \in SessionIds :
        /\ sessions[i].status = "active"
        /\ sessions[i].last_used_at > sessions[i].created_at
        /\ Len(tokens) >= 2
        /\ \E d \in Devices :
              refresh_response(RawToken(i), d).error
                 = "Invalid or expired refresh token"

\* C8: revoke-session on an active session of the caller returns true and
\* leaves it revoked; called again on the same, now revoked, session it
\* returns false and changes nothing.
C8_RevokeTwice ==
    [][\A b \in Bearers, i \in 1..MaxSessions :
          (/\ RevokeSessionAccepted(b, i)
           /\ i \in SessionIds
           /\ sessions[i].user_id = tokens[b].sub)
          => /\ sessions[i].status = "active"
                => /\ revoke_session_response(b, i).ret
                   /\ sessions'[i].status = "revoked"
             /\ sessions[i].status = "revoked"
                => /\ ~revoke_session_response(b, i).ret
                   /\ sessions' = sessions]_vars

\* C9: the sweep turns every active session whose expires_at is in the past
\* to expired, leaves every other row (revoked ones, active unexpired ones)
\* as it was, and returns the number of rows it turned.
C9_SweepFrame ==
    [][cleanup_expired_sessions
       => /\ DOMAIN sessions' = DOMAIN sessions
          /\ \A i \in SessionIds :
                sessions'[i] =
                   IF sessions[i].status = "active"
                      /\ sessions[i].expires_at < now
                   THEN [sessions[i] EXCEPT !.status = "expired"]
                   ELSE sessions[i]
          /\ cleanup_expired_count =
                Cardinality({i \in SessionIds :
                                sessions'[i].status # sessions[i].status})
       ]_vars

\* C9 witness: the sweep has expired a session, beside a revoked session
\* whose expires_at has passed too and an active one that has not expired
C9_Witness ==
    /\ \E i \in SessionIds :
          sessions[i].status = "expired" /\ sessions[i].expires_at < now
    /\ \E j \in SessionIds :
          sessions[j].status = "revoked" /\ sessions[j].expires_at < now

\* C10: after a logout with a device id the access token presented is in
\* the revocation set and no refresh token of that user's sessions on that
\* device verifies.
C10_LogoutComplete ==
    [][\A b \in Bearers, d \in Devices :
          LogoutAccepted(b, d)
          => /\ b \in blacklisted_tokens'
             /\ \A i \in PairSessions(tokens[b].sub, d) :
                   verify_refresh_token(RawToken(i), d)' = None]_vars

\* C11: an on_connect that fails (no credential, a credential that does not
\* decode, a statement that raises) leaves nothing behind: the registry, the
\* room memberships and the user rows are as before, the client is not
\* connected and no event was emitted.
C11_FailedConnectLeavesNothing ==
    [][\A c \in Handles, a \in Bearers :
          (\/ OnConnectRejected(c, a)
           \/ \E f \in Faults : OnConnectFaulted(c, a, f))
          => /\ connected_users' = connected_users
             /\ rooms' = rooms
             /\ users' = users
             /\ conns'[c] = NoUser
             /\ emitted' = <<>>]_vars

\* C12: revoke_session called for a session with a user id that is not its
\* owner's returns False and leaves every session as it is, and the route
\* answers 404 to a caller who is not the owner.
C12_RevokeScopedToOwner ==
    /\ \A u \in Users, i \in SessionIds :
          sessions[i].user_id # u
          => /\ ~revoke_session_result(i, u)
             /\ revoke_session(i, u) = sessions
    /\ \A b \in Bearers, i \in SessionIds :
          (Validate(b) /\ sessions[i].user_id # tokens[b].sub)
          => /\ revoke_session_response(b, i).code = 404
             /\ ~revoke_session_response(b, i).ret

\* C12 witness: a caller with a valid token who has revoked a session of
\* their own, beside an active session of another user
C12_Witness ==
    \E b \in Bearers, i, j \in SessionIds :
        /\ Validate(b)
        /\ sessions[i].user_id # tokens[b].sub
        /\ sessions[i].status = "active"
        /\ sessions[j].user_id = tokens[b].sub
        /\ sessions[j].status = "revoked"
        /\ revoke_session_response(b, i).code = 404

\* C13 (the refresh requests that fail for a cause the claim names): a
\* token no session was created with, a session's token with another
\* device id, the token and device of a session that is revoked, expired
\* or past its expires_at
RefreshFailures ==
    {td \in (1..(MaxSessions + 1)) \X Devices :
        \/ \A i \in SessionIds : RawToken(i) # td[1]
        \/ \E i \in SessionIds : /\ RawToken(i) = td[1]
                                  /\ sessions[i].device_id # td[2]
        \/ \E i \in SessionIds : /\ RawToken(i) = td[1]
                                  /\ sessions[i].device_id = td[2]
                                  /\ \/ sessions[i].status # "active"
                                     \/ sessions[i].expires_at <= now}

\* C13: login answers an unknown username and a wrong password of a known
\* user with the same response, and refresh answers a token nobody was
\* given, a token with the wrong device and the token of a revoked or
\* expired session with the same response (each compared with the response
\* to a token nobody was given).
C13_FailuresIndistinguishable ==
    /\ \A u \in Users, p \in Passwords, d \in Devices, r \in BOOLEAN :
          /\ login_response("nobody", p, d, r)
                = login_response(u, "wrong", d, r)
          /\ login_response(u, "wrong", d, r).code = 401
    /\ \A x \in RefreshFailures :
          /\ refresh_response(x[1], x[2])
                = refresh_response(MaxSessions + 1, "D1")
          /\ refresh_response(x[1], x[2]).code = 401

\* C13 witness: a revoked session and a session swept to expired, each
\* refused on its own device and on the other, beside a token nobody has
C13_Witness ==
    \E i, j \in SessionIds :
        /\ sessions[i].status = "revoked"
        /\ sessions[j].status = "expired"
        /\ <<RawToken(i), sessions[i].device_id>> \in RefreshFailures
        /\ <<RawToken(j), sessions[j].device_id>> \in RefreshFailures
        /\ \E d \in Devices \ {sessions[i].device_id} :
              <<RawToken(i), d>> \in RefreshFailures
        /\ \E d \in Devices : <<MaxSessions + 1, d>> \in RefreshFailures

\* C14: two calls of generate_device_fingerprint with the same arguments
\* (an empty or missing user agent included), made in any two states,
\* return the same device id.
C14_FingerprintPure ==
    \A x \in calls, y \in calls :
        x.args = y.args => x.device_id = y.device_id

\* C15: in every step a session whose status is revoked keeps status
\* revoked and one whose status is expired keeps status expired; an active
\* session stays active, or becomes revoked, or becomes expired in a step
\* of the sweep taken after its expires_at has passed.
C15_TerminalStatuses ==
    [][sessions' # sessions
       => \A i \in SessionIds :
             /\ sessions[i].status \in {"revoked", "expired"}
                   => sessions'[i].status = sessions[i].status
             /\ (sessions[i].status = "active"
                 /\ sessions'[i].status = "expired")
                   => (cleanup_expired_sessions
                       /\ sessions[i].expires_at < now)
             /\ sessions'[i].status \in {"active", "revoked", "expired"}
       ]_vars

\* the keys under which a summary would carry a session's credentials
SensitiveKeys == {"refresh_token", "refresh_token_hash", "session_secret"}

\* C16: no summary that GET /sessions answers has a key for the raw refresh
\* token, the stored hash or the session secret; to_dict carries the secret
\* (and never the token or its hash) exactly when include_sensitive is set.
C16_SummariesNotSensitive ==
    /\ \A b \in Bearers, d \in DeviceCookies :
          Validate(b)
          => \A x \in get_user_sessions(tokens[b].sub, d).sessions :
                DOMAIN x \cap SensitiveKeys = {}
    /\ \A i \in SessionIds :
          /\ DOMAIN to_dict(i, FALSE) \cap SensitiveKeys = {}
          /\ DOMAIN to_dict(i, TRUE) \cap SensitiveKeys = {"session_secret"}

\* C16 witness: a caller whose list has two summaries, one of them of the
\* device the request comes from
C16_Witness ==
    \E b \in Bearers, d \in Devices :
        /\ Validate(b)
        /\ get_user_sessions(tokens[b].sub, d).total = 2
        /\ \E x \in get_user_sessions(tokens[b].sub, d).sessions :
              x.is_current
        /\ \E x \in get_user_sessions(tokens[b].sub, d).sessions :
              ~x.is_current

\* C17: while a login is between the commit that creates the replacement
\* and the commit that revokes the session it found, no state shows the
\* session it found and another session of the same user and device both
\* active and unexpired.
C17_RotationAtomic ==
    \A w \in Workers :
        (inflight[w].op = "login" /\ inflight[w].target # None)
        => ~ \E j \in SessionIds \ {inflight[w].target} :
                /\ sessions[j].user_id = inflight[w].user
                /\ sessions[j].device_id = inflight[w].device
                /\ is_valid(sessions[j])
                /\ is_valid(sessions[inflight[w].target])

\* C18: the commit of a sweep turns to expired exactly as many active
\* sessions as the sweep returns, and leaves the status of every session
\* that is not active as it is.
C18_SweepUnderConcurrency ==
    [][\A w \in Workers :
          SweepCommit(w)
          => /\ sweep_count(w) =
                   Cardinality({i \in SessionIds :
                                   /\ sessions[i].status = "active"
                                   /\ sessions'[i].status = "expired"})
             /\ \A i \in SessionIds :
                   sessions[i].status # "active"
                   => sessions'[i].status = sessions[i].status]_vars

\* C19: no step writes last_used_at of a session whose status is revoked
\* or makes such a session active, and every revoked session has
\* last_used_at <= revoked_at.
C19_NoTouchAfterRevoke ==
    [][sessions' # sessions
       => \A i \in SessionIds :
             /\ sessions[i].status = "revoked"
                   => /\ sessions'[i].last_used_at = sessions[i].last_used_at
                      /\ sessions'[i].status # "active"
             /\ sessions'[i].status = "revoked"
                   => sessions'[i].last_used_at <= sessions'[i].revoked_at
       ]_vars

\* C20: no step lowers the last_used_at of a session.
C20_LastUsedMonotonic ==
    [][sessions' # sessions
       => \A i \in SessionIds :
             sessions'[i].last_used_at >= sessions[i].last_used_at]_vars

\* C21 (the registry as the claim describes it): as many entries as there
\* are connected clients, and the entry under each client's key holds the
\* user the client connected as
RegistryPerConnection ==
    /\ Cardinality(DOMAIN connected_users) = Cardinality(Connected)
    /\ \A c \in Connected : registry_get(session_key(c)) = conns[c]

\* C21: after every accepted connect and every disconnect the registry has
\* exactly one entry per connected client, holding the user that client
\* connected as; a disconnect leaves the entry of every other connected
\* client as it was and clears the online flag of no user other than the
\* one the disconnecting client connected as.
C21_RegistryPerConnection ==
    [][/\ conns' # conns => RegistryPerConnection'
       /\ \A c \in Handles :
             OnDisconnect(c)
             => /\ \A d \in Connected \ {c} :
                      registry_get(session_key(d))'
                         = registry_get(session_key(d))
                /\ \A u \in Users \ {conns[c]} :
                      users'[u].is_online = users[u].is_online]_vars

\* C22: no connect that presents an access token whose id is in the
\* revocation set is accepted: such a connect writes no registry entry and
\* sets no online flag.
C22_ConnectChecksRevocation ==
    [][\A c \in Handles, a \in Bearers :
          check_if_token_revoked(a)
          => /\ ~OnConnectAccepted(c, a)
             /\ (conns[c] = NoUser /\ OnConnectRejected(c, a))
                   => /\ connected_users' = connected_users
                      /\ users' = users]_vars

\* C23: every refresh that is answered 401 is answered with both cookies
\* cleared, whether the client of a session sent its refresh token without
\* a device id or with any device id (a device that is not the session's,
\* a session revoked, expired or past its expires_at, an owner who is not
\* active) or sent the session's device id without a refresh token.
C23_RefreshFailureClearsCookies ==
    \A i \in SessionIds :
        /\ \A d \in DeviceCookies :
              refresh_response(RawToken(i), d).code = 401
              => refresh_response(RawToken(i), d).cleared
        /\ refresh_response(0, sessions[i].device_id).code = 401
              => refresh_response(0, sessions[i].device_id).cleared

\* C24: in every call recorded, the hashed attribute map has a key for a
\* client attribute only if the client's dict supplied it, and a call whose
\* dict has none of the five recognised attributes returns the device id
\* that a call with the same user agent and language and no dict returns.
C24_AbsentAttrsOmitted ==
    /\ \A x \in calls : \A k \in RecognisedAttrs :
          k \in DOMAIN x.data => k \in DOMAIN x.args[3]
    /\ \A x \in calls, y \in calls :
          (/\ x.args[1] # <<>> /\ x.args[2] # <<>>
           /\ x.args[1] = y.args[1] /\ x.args[2] = y.args[2]
           /\ DOMAIN x.args[3] \cap RecognisedAttrs = {}
           /\ y.args[3] = NoAttrs)
          => x.device_id = y.device_id

\* C25: whenever no login is in flight, no (user, device) pair has more
\* than one session that is active and unexpired, however the logins that
\* have completed were interleaved.
C25_ConcurrentLoginsOneSession ==
    (\A w \in Workers : inflight[w].op # "login")
    => \A u \in Users, d \in Devices :
          Cardinality({i \in SessionIds : /\ sessions[i].user_id = u
                                          /\ sessions[i].device_id = d
                                          /\ is_valid(sessions[i])}) <= 1

\* C26: in every state, the refresh token of a session that a later
\* remember-me login of the same user on the same device has replaced
\* verifies with that device id against no session, and a refresh with it
\* is answered 401.
C26_RotatedOutNeverRefreshes ==
    \A i \in SessionIds, j \in SessionIds :
        (/\ i < j
         /\ sessions[i].user_id = sessions[j].user_id
         /\ sessions[i].device_id = sessions[j].device_id)
        => /\ verify_refresh_token(RawToken(i), sessions[i].device_id) = None
           /\ refresh_response(RawToken(i), sessions[i].device_id).code = 401

\* C26 witness: a session revoked by the login that replaced it, at a time
\* before its expires_at, while the replacement's token verifies
C26_Witness ==
    \E i \in SessionIds, j \in SessionIds :
        /\ i < j
        /\ sessions[i].user_id = sessions[j].user_id
        /\ sessions[i].device_id = sessions[j].device_id
        /\ sessions[i].status = "revoked"
        /\ sessions[i].expires_at > now
        /\ verify_refresh_token(RawToken(j), sessions[j].device_id) = j

\* C27: a refresh that is answered 401, for whatever cause (the owner of
\* the session not being an active user included), changes no session, no
\* user and issues no access token.
C27_FailedRefreshChangesNothing ==
    [][\A t \in RefreshCookies, d \in DeviceCookies :
          (/\ refresh_response(t, d).code = 401
           /\ RefreshRejected(t, d) \/ RefreshInactive(t, d))
          => /\ sessions' = sessions
             /\ users' = users
             /\ tokens' = tokens]_vars

\* C28: a logout-all adds to the revocation set the id of the access token
\* it was called with, which was not in it, and no other id; every other
\* access token, those of the same user included, validates afterwards
\* exactly if it validated before.
C28_LogoutAllRevokesOneToken ==
    [][blacklisted_tokens' # blacklisted_tokens
       => \A b \in Bearers :
             LogoutAllAccepted(b)
             => /\ b \notin blacklisted_tokens
                /\ blacklisted_tokens' = blacklisted_tokens \cup {b}
                /\ \A j \in Bearers \ {b} : Validate(j)' = Validate(j)]_vars

\* C28 witness: a user's sessions on two devices revoked at one instant,
\* the token of one device in the revocation set and the token of the
\* other still validating
C28_Witness ==
    \E b \in blacklisted_tokens, j \in Bearers, s1, s2 \in SessionIds :
        /\ j # b
        /\ Validate(j)
        /\ tokens[j].sub = tokens[b].sub
        /\ sessions[s1].user_id = tokens[b].sub
        /\ sessions[s2].user_id = tokens[b].sub
        /\ sessions[s1].device_id # sessions[s2].device_id
        /\ sessions[s1].status = "revoked"
        /\ sessions[s2].status = "revoked"
        /\ sessions[s1].revoked_at = sessions[s2].revoked_at

\* C29: right after a restart the list of online users is empty, and a user
\* enters the list only in a step that is an accepted connect.
C29_NobodyOnlineAfterRestart ==
    [][/\ Restart => get_online_users' = {}
       /\ \A u \in get_online_users' \ get_online_users :
             \E c \in Handles, a \in Bearers : OnConnectAccepted(c, a)]_vars

\* C30: in every state, whatever the interleaving of the handlers' steps,
\* a session has a revoked_at exactly if its status is revoked.
C30_RevokedAtIffRevoked ==
    \A i \in SessionIds :
        sessions[i].revoked_at # None <=> sessions[i].status = "revoked"

====
